---- MODULE Spec2Model ----
(***************************************************************************)
(* Model of the request gateway of claude-api-gateway: the proxy handlers  *)
(* (api/handler/proxy_handler.go), the failover orchestrator and the SSE   *)
(* stream forwarding/translation (internal/proxy/proxy.go), the mapping,   *)
(* channel and log repositories and the request_logs schema.               *)
(*                                                                         *)
(* One logical request is followed from the handler's entry to its         *)
(* response; the channel table is changed concurrently by the admin API.   *)
(***************************************************************************)
EXTENDS Integers, Sequences, FiniteSets, TLC

(***************************************************************************)
(* Bounds of the model.                                                    *)
(***************************************************************************)
MaxMappings == 2
MaxAdminOps == 1
MaxRecords == 2
MaxMessages == 3

(***************************************************************************)
(* Small domains.                                                          *)
(***************************************************************************)
Channels == {1, 2}
Priorities == {1, 2}
DisplayModels == {"m1", "m2"}
Entries == {"messages", "chat"}
CallerKey == "caller-key"
DefaultBaseURL == "https://api.anthropic.com"
RequestID == "req-1"
NoTok == -1

UpstreamModelOf(ch) == IF ch = 1 THEN "u1" ELSE IF ch = 2 THEN "u2" ELSE "u3"
AltUpstreamModel == "u1-alt"
BaseURLOf(ch) == IF ch = 1 THEN "https://c1" ELSE IF ch = 2 THEN "https://c2" ELSE "https://c3"
APIKeyOf(ch) == IF ch = 1 THEN "key-1" ELSE IF ch = 2 THEN "key-2" ELSE "key-3"
\* The timeout column of the channels, in seconds: the default of the schema on one
\* channel, a longer one on the other.
TimeoutOf(ch) == IF ch = 1 THEN 60 ELSE 300
\* The timeout of a call with no channel, and the Timeout of the service's http.Client.
DefaultTimeout == 120
ClientTimeout == 120
\* The provider column of the channels: one anthropic channel, one of another flavor.
ProviderOf(ch) == IF ch = 1 THEN "anthropic" ELSE "openai"

(***************************************************************************)
(* Sequence helpers.                                                       *)
(***************************************************************************)
Range(s) == {s[i] : i \in 1..Len(s)}

SeqsOver(S, n) == UNION {[1..k -> S] : k \in 0..n}

Perms(S) == {s \in [1..Cardinality(S) -> S] : Range(s) = S}

(***************************************************************************)
(* SSE bytes.  A stream is a sequence of atoms: the newline byte, the      *)
(* carriage-return byte, or the text of one line (its bytes taken          *)
(* together).  A line is a field ("event", "data", ":" for a comment) and  *)
(* a payload.                                                              *)
(***************************************************************************)
Payload(kind, type, msgInput, usageOutput, hasText, text, role, finish) ==
  [kind |-> kind, type |-> type, msgInput |-> msgInput, usageOutput |-> usageOutput,
   hasText |-> hasText, text |-> text, role |-> role, finish |-> finish]

NoPayload == Payload("none", "", NoTok, NoTok, FALSE, "", "", "")

Atom(field, payload) == [field |-> field, payload |-> payload]

NL == Atom("\n", NoPayload)
CR == Atom("\r", NoPayload)

\* An Anthropic streaming event, as the JSON object of a data: line.
AnthropicEvent(type, msgInput, usageOutput, hasText, text) ==
  Payload("json", type, msgInput, usageOutput, hasText, text, "", "")

EvMessageStart == AnthropicEvent("message_start", 10, NoTok, FALSE, "")
EvContentDelta == AnthropicEvent("content_block_delta", NoTok, NoTok, TRUE, "Hi")
EvMessageDelta3 == AnthropicEvent("message_delta", NoTok, 3, FALSE, "")
EvMessageDelta5 == AnthropicEvent("message_delta", NoTok, 5, FALSE, "")
EvMessageStop == AnthropicEvent("message_stop", NoTok, NoTok, FALSE, "")
EvPing == AnthropicEvent("ping", NoTok, NoTok, FALSE, "")
\* A payload that is not valid JSON, and a payload of white space only.
EvMalformed == Payload("bad", "", NoTok, NoTok, FALSE, "", "", "")
EvEmpty == Payload("empty", "", NoTok, NoTok, FALSE, "", "", "")
\* What an OpenAI upstream sends: a chunk object and the [DONE] literal.
EvUpstreamChunk == Payload("chunk", "", NoTok, NoTok, TRUE, "Yo", "assistant", "null")
EvDone == Payload("done", "", NoTok, NoTok, FALSE, "", "", "")

AnthropicEvents == {EvMessageStart, EvContentDelta, EvMessageDelta3, EvMessageDelta5,
                    EvMessageStop, EvPing, EvMalformed, EvEmpty}
OpenAIEvents == {EvUpstreamChunk, EvDone, EvEmpty}
Events == AnthropicEvents \cup OpenAIEvents

DataLine(p) == Atom("data", p)
EventLine(p) == Atom("event", Payload("name", p.type, NoTok, NoTok, FALSE, "", "", ""))
CommentLine == Atom(":", NoPayload)

\* json.Unmarshal into map[string]interface{} succeeds on a JSON object only.
IsJSONObject(p) == p.kind \in {"json", "chunk"}

(***************************************************************************)
(* Upstream bodies: a sequence of records under a framing.                 *)
(*   "blank"   data: line, blank line                (one record per event)*)
(*   "event"   event: line, data: line, blank line   (Anthropic's framing) *)
(*   "crlf"    as "blank" with \r\n line ends                              *)
(*   "lines"   data: lines with no blank line between them                 *)
(*   "comment" a ": keep-alive" comment line before each data: line        *)
(* and the last line is terminated or not (the upstream closed mid-frame). *)
(***************************************************************************)
Framings == {"blank", "event", "crlf", "lines", "comment"}
Endings == {<<fr, TRUE>> : fr \in Framings} \cup {<<"blank", FALSE>>, <<"lines", FALSE>>}

Frame(p, framing) ==
  CASE framing = "blank" -> <<DataLine(p), NL, NL>>
    [] framing = "event" -> <<EventLine(p), NL, DataLine(p), NL, NL>>
    [] framing = "crlf" -> <<DataLine(p), CR, NL, CR, NL>>
    [] framing = "lines" -> <<DataLine(p), NL>>
    [] framing = "comment" -> <<CommentLine, NL, DataLine(p), NL>>

RECURSIVE FrameAll(_, _)
FrameAll(evs, framing) ==
  IF evs = <<>> THEN <<>> ELSE Frame(Head(evs), framing) \o FrameAll(Tail(evs), framing)

RECURSIVE DropTrailingNewlines(_)
DropTrailingNewlines(atoms) ==
  IF atoms # <<>> /\ atoms[Len(atoms)] \in {NL, CR}
  THEN DropTrailingNewlines(SubSeq(atoms, 1, Len(atoms) - 1))
  ELSE atoms

BuildBody(evs, framing, terminated) ==
  IF terminated THEN FrameAll(evs, framing) ELSE DropTrailingNewlines(FrameAll(evs, framing))

\* The stream of the specification's example: four records, a blank line after each.
ExampleEvents == <<EvMessageStart, EvContentDelta, EvMessageDelta3, EvMessageStop>>
ExampleBody == BuildBody(ExampleEvents, "blank", TRUE)
ExampleBodyWithEvents == BuildBody(ExampleEvents, "event", TRUE)

StreamBodies ==
  {BuildBody(evs, e[1], e[2]) : evs \in SeqsOver(Events, MaxRecords), e \in Endings}
    \cup {ExampleBody, ExampleBodyWithEvents}

\* The bodies tried under every channel configuration.
CommonBodies == {<<>>, ExampleBody}

(***************************************************************************)
(* lineScanner.Scan: read byte by byte into the buffer until a newline or  *)
(* a read error; the result is whether the buffer is non-empty.            *)
(* Returns the call's result, the buffer (Text()) and the unread rest.     *)
(***************************************************************************)
RECURSIVE ScanLoop(_, _)
ScanLoop(reader, buffer) ==
  IF reader = <<>>
  THEN [ok |-> Len(buffer) > 0, buffer |-> buffer, rest |-> <<>>]
  ELSE IF Head(reader) = NL
  THEN [ok |-> Len(buffer) > 0, buffer |-> buffer, rest |-> Tail(reader)]
  ELSE IF Head(reader) # CR
  THEN ScanLoop(Tail(reader), Append(buffer, Head(reader)))
  ELSE ScanLoop(Tail(reader), buffer)

Scan(reader) == ScanLoop(reader, <<>>)

\* Text() of a buffer: the line.  A buffer holds one line atom in every body built above.
Text(buffer) == buffer[1]

HasPrefix(line, prefix) == line.field = prefix

\* strings.TrimSpace(strings.TrimPrefix(line, "data:")) = ""
TrimmedIsEmpty(line) == line.payload.kind = "empty"

(***************************************************************************)
(* The store: the channels and model_mappings tables.                      *)
(***************************************************************************)
Channel(active, priority, provider) ==
  [exists |-> TRUE, is_active |-> active, priority |-> priority, provider |-> provider]

MappingRow(ch, upstream, display, enabled) ==
  [channel_id |-> ch, upstream_model |-> upstream, display_model |-> display,
   is_enabled |-> enabled]

\* The rows of the query of FindByDisplayModel: the LEFT JOIN and its WHERE clause.
MatchingRows(rows, chans, displayModel) ==
  {m \in rows : /\ m.display_model = displayModel
                /\ m.is_enabled
                /\ chans[m.channel_id].exists
                /\ chans[m.channel_id].is_active}

\* ORDER BY c.priority DESC: any order of the rows that descends in priority.
OrderedByPriorityDesc(s, chans) ==
  \A i, j \in 1..Len(s) :
    i < j => chans[s[i].channel_id].priority >= chans[s[j].channel_id].priority

\* The query without its ORDER BY clause: the rows in any order.
FindByDisplayModel_Unordered(rows, chans, displayModel) ==
  Perms(MatchingRows(rows, chans, displayModel))

FindByDisplayModel(rows, chans, displayModel) ==
  {s \in Perms(MatchingRows(rows, chans, displayModel)) : OrderedByPriorityDesc(s, chans)}

(***************************************************************************)
(* Upstream answers to one non-streaming or stream-opening call.           *)
(*   dial   "ok", or the call failed ("refused", "timeout")                *)
(*   read   the body was read to its end                                   *)
(*   status the HTTP status, json: the body parses as a JSON object        *)
(***************************************************************************)
Statuses == {200, 201, 500}

Resp(dial, read, status, json) == [dial |-> dial, read |-> read, status |-> status, json |-> json]

Responses ==
  {Resp("refused", FALSE, 0, FALSE), Resp("timeout", FALSE, 0, FALSE),
   Resp("ok", FALSE, 200, FALSE),
   Resp("ok", TRUE, 500, TRUE), Resp("ok", TRUE, 500, FALSE), Resp("ok", TRUE, 201, TRUE),
   Resp("ok", TRUE, 200, FALSE), Resp("ok", TRUE, 200, TRUE)}

\* A stream is opened on the status line; its body is read afterwards.
StreamResponses == {r \in Responses : r.dial # "ok" \/ (r.read /\ (r.status = 200 => r.json))}

\* The usage block of a successful non-streaming upstream answer.
UpstreamUsage == [input_tokens |-> 5, output_tokens |-> 7]

\* The error type of an upstream error body that parses.
ErrTypeOf(resp) == IF resp.status = 500 THEN "overloaded_error" ELSE ""

StatusText(status) ==
  CASE status = 200 -> "200" [] status = 201 -> "201" [] status = 500 -> "500" [] OTHER -> "0"

(***************************************************************************)
(* RequestLog records and the log repository.                              *)
(***************************************************************************)
RequestLog(channelID, modelName, upstreamModel, inTok, outTok, total, status, errorCode) ==
  [channel_id |-> channelID, request_id |-> RequestID, model_name |-> modelName,
   upstream_model |-> upstreamModel, input_tokens |-> inTok, output_tokens |-> outTok,
   total_tokens |-> total, status |-> status, error_code |-> errorCode]

\* logSuccess: the usage of the Anthropic response.
logSuccess(channelID, modelName, upstreamModel, inTok, outTok) ==
  RequestLog(channelID, modelName, upstreamModel, inTok, outTok, inTok + outTok, "success", "")

\* logChatSuccess: the usage of the OpenAI response, total as given.
logChatSuccess(channelID, modelName, upstreamModel, prompt, completion, total) ==
  RequestLog(channelID, modelName, upstreamModel, prompt, completion, total, "success", "")

\* logError and logChatError (the same body): hasResp is httpResp != nil.
logError(channelID, modelName, upstreamModel, hasResp, status, errorCode) ==
  LET statusCode == IF hasResp THEN StatusText(status) ELSE ""
  IN RequestLog(channelID, modelName, upstreamModel, 0, 0, 0, "error",
                IF statusCode # "" THEN statusCode \o ":" \o errorCode ELSE errorCode)

\* LogRepository.Create on the request_logs table: request_id is UNIQUE.
InsertOK(rows, log, sinkOK) == sinkOK /\ \A i \in 1..Len(rows) : rows[i].request_id # log.request_id

Create(rows, log, sinkOK) == IF InsertOK(rows, log, sinkOK) THEN Append(rows, log) ELSE rows

(***************************************************************************)
(* The target of an attempt: a configured channel or, with no channel,     *)
(* the default endpoint with the caller's key.                             *)
(***************************************************************************)
\* A target that keeps a configured credential when there is no channel.
Target_ConfiguredKey(channelID, chans, apiKey) ==
  IF channelID # 0
  THEN [channel_id |-> channelID, base_url |-> BaseURLOf(channelID),
        api_key |-> APIKeyOf(channelID), provider |-> chans[channelID].provider,
        timeout |-> TimeoutOf(channelID)]
  ELSE [channel_id |-> 0, base_url |-> DefaultBaseURL, api_key |-> APIKeyOf(1),
        provider |-> "anthropic", timeout |-> DefaultTimeout]

Target(channelID, chans, apiKey) ==
  IF channelID # 0
  THEN [channel_id |-> channelID, base_url |-> BaseURLOf(channelID),
        api_key |-> APIKeyOf(channelID), provider |-> chans[channelID].provider,
        timeout |-> TimeoutOf(channelID)]
  ELSE [channel_id |-> 0, base_url |-> DefaultBaseURL, api_key |-> apiKey,
        provider |-> "anthropic", timeout |-> DefaultTimeout]

\* The time after which an upstream call is cut: the deadline of its context
\* (context.WithTimeout(context.Background(), timeout)) or the Timeout of the
\* http.Client that makes the call, whichever ends first.
Deadline(target) == IF target.timeout < ClientTimeout THEN target.timeout ELSE ClientTimeout

\* The outbound request: path, credential header and anthropic-version header.
AnthropicVersion == "2023-06-01"

Outbound(entry, target, upstreamModel) ==
  IF entry = "messages" \/ target.provider = "anthropic"
  THEN [url |-> target.base_url, path |-> "/v1/messages", auth |-> "x-api-key",
        key |-> target.api_key, version |-> AnthropicVersion, model |-> upstreamModel]
  ELSE [url |-> target.base_url, path |-> "/v1/chat/completions", auth |-> "bearer",
        key |-> target.api_key, version |-> "", model |-> upstreamModel]

(***************************************************************************)
(* Errors and results returned by the service to the handler.  An error    *)
(* carries the stage tag of its message and the attempt it describes       *)
(* (0: none, the message names the model only).                            *)
(***************************************************************************)
NoResult == [kind |-> "none", tag |-> "", attempt |-> 0]
Ok(attempt) == [kind |-> "ok", tag |-> "", attempt |-> attempt]
Err(tag, attempt) == [kind |-> "err", tag |-> tag, attempt |-> attempt]
AllChannelsFailed == Err("all_channels_failed", 0)

(***************************************************************************)
(* proxyToChannel and proxyChatToChannel: one non-streaming attempt.       *)
(* n is the number of the attempt; the result is the value returned and    *)
(* the record handed to the log repository.                                *)
(***************************************************************************)
proxyToChannel(target, modelName, upstreamModel, resp, n) ==
  LET id == target.channel_id
  IN IF resp.dial # "ok"
     THEN [ret |-> Err("http_request", n),
           log |-> logError(id, modelName, upstreamModel, FALSE, 0, "http_request")]
     ELSE IF ~resp.read
     THEN [ret |-> Err("read_response", n),
           log |-> logError(id, modelName, upstreamModel, FALSE, 0, "read_response")]
     ELSE IF resp.status # 200
     THEN IF resp.json
          THEN [ret |-> Err("api_error", n),
                log |-> logError(id, modelName, upstreamModel, TRUE, resp.status, ErrTypeOf(resp))]
          ELSE [ret |-> Err("api_error", n),
                log |-> logError(id, modelName, upstreamModel, TRUE, resp.status, "unknown")]
     ELSE IF ~resp.json
     THEN [ret |-> Err("parse_response", n),
           log |-> logError(id, modelName, upstreamModel, TRUE, resp.status, "parse_response")]
     ELSE [ret |-> Ok(n),
           log |-> logSuccess(id, modelName, upstreamModel, UpstreamUsage.input_tokens,
                           UpstreamUsage.output_tokens)]

proxyChatToChannel(target, modelName, upstreamModel, resp, n) ==
  LET id == target.channel_id
  IN IF resp.dial # "ok"
     THEN [ret |-> Err("http_request", n),
           log |-> logError(id, modelName, upstreamModel, FALSE, 0, "http_request")]
     ELSE IF ~resp.read
     THEN [ret |-> Err("read_response", n),
           log |-> logError(id, modelName, upstreamModel, FALSE, 0, "read_response")]
     ELSE IF resp.status # 200
     THEN [ret |-> Err("api_error", n),
           log |-> logError(id, modelName, upstreamModel, TRUE, resp.status, "api_error")]
     ELSE IF ~resp.json
     THEN [ret |-> Err("parse_response", n),
           log |-> logError(id, modelName, upstreamModel, TRUE, resp.status, "parse_response")]
     ELSE [ret |-> Ok(n),
           log |-> logChatSuccess(id, modelName, upstreamModel, UpstreamUsage.input_tokens,
                                  UpstreamUsage.output_tokens,
                                  UpstreamUsage.input_tokens + UpstreamUsage.output_tokens)]

(***************************************************************************)
(* The caller's response: gin's ResponseWriter.  Header().Set changes the  *)
(* header map only; the first Write (or Flush) sends the status line and   *)
(* the headers, after which Written() is true.                             *)
(***************************************************************************)
NoHeaders == [content_type |-> "", cache_control |-> "", connection |-> ""]
StreamHeaders ==
  [content_type |-> "text/event-stream", cache_control |-> "no-cache", connection |-> "keep-alive"]

NewWriter == [headers |-> NoHeaders, status |-> 200, written |-> FALSE, body |-> <<>>, flushed |-> 0]

SetStreamHeaders(rw) == [rw EXCEPT !.headers = StreamHeaders]

Write(rw, atoms) == [rw EXCEPT !.written = TRUE, !.body = rw.body \o atoms]

Flush(rw) == [rw EXCEPT !.written = TRUE, !.flushed = Len(rw.body)]

Written(rw) == rw.written

\* c.JSON(code, obj): the status is set unless the headers were sent, the content
\* type is set unless one is present, and the JSON body is written.
JSONBody(code, envelope) ==
  Atom("json", Payload("envelope", envelope, code, NoTok, FALSE, "", "", ""))

JSON(rw, code, envelope) ==
  LET rw1 == IF Written(rw) THEN rw ELSE [rw EXCEPT !.status = code]
      rw2 == IF rw1.headers.content_type = ""
             THEN [rw1 EXCEPT !.headers.content_type = "application/json"]
             ELSE rw1
  IN Write(rw2, <<JSONBody(code, envelope)>>)

(***************************************************************************)
(* The credentials of a request and ProxyHandler.validateAPIKey.  The key  *)
(* is the x-api-key header, else the token of an Authorization header that *)
(* starts with "Bearer ", else the auth_token cookie.                      *)
(***************************************************************************)
WrongKey == "wrong-key"

Authorization(scheme, token) == [scheme |-> scheme, token |-> token]
NoAuthorization == Authorization("", "")

Cookie(value) == [present |-> TRUE, value |-> value]
NoCookie == [present |-> FALSE, value |-> ""]

Credentials(key, auth, cookie) == [x_api_key |-> key, authorization |-> auth, auth_token |-> cookie]

\* The credentials of a caller that sends the configured key in the x-api-key header.
OwnCredentials == Credentials(CallerKey, NoAuthorization, NoCookie)

CredentialSets ==
  {Credentials(key, auth, cookie) :
     key \in {"", CallerKey, WrongKey},
     auth \in {NoAuthorization, Authorization("Bearer", CallerKey), Authorization("Basic", CallerKey)},
     cookie \in {NoCookie, Cookie(CallerKey)}}

\* The keys the handler can be configured with: none (open access) or the shared secret.
ConfiguredKeys == {"", CallerKey}

\* A handler that compares nothing: every request is let in with the key it presents.
validateAPIKey_NoComparison(creds, hAPIKey) ==
  LET fromHeader == creds.x_api_key
      fromAuth == IF fromHeader = "" /\ creds.authorization.scheme = "Bearer"
                  THEN creds.authorization.token ELSE fromHeader
      apiKey == IF fromAuth = "" /\ creds.auth_token.present
                THEN creds.auth_token.value ELSE fromAuth
  IN [apiKey |-> apiKey, valid |-> TRUE]

validateAPIKey(creds, hAPIKey) ==
  LET fromHeader == creds.x_api_key
      fromAuth == IF fromHeader = "" /\ creds.authorization.scheme = "Bearer"
                  THEN creds.authorization.token ELSE fromHeader
      apiKey == IF fromAuth = "" /\ creds.auth_token.present
                THEN creds.auth_token.value ELSE fromAuth
  IN IF hAPIKey = "" THEN [apiKey |-> apiKey, valid |-> TRUE]
     ELSE IF apiKey # hAPIKey THEN [apiKey |-> "", valid |-> FALSE]
     ELSE [apiKey |-> apiKey, valid |-> TRUE]

\* The routes of router.Setup that lead to a proxy handler.
RegisteredRoutes == {"messages"}

(***************************************************************************)
(* convertOpenAIToAnthropic.  The content of an OpenAI message is a string *)
(* or an array of content blocks, of which the text blocks are joined.     *)
(***************************************************************************)
Roles == {"system", "user", "assistant", "tool"}

StringContent(text) == [kind |-> "string", text |-> text, blocks |-> <<>>]
TextBlock(text) == [hasText |-> TRUE, text |-> text]
ImageBlock == [hasText |-> FALSE, text |-> ""]
BlocksContent(blocks) == [kind |-> "blocks", text |-> "", blocks |-> blocks]

Contents ==
  {StringContent("X"), StringContent("Y"),
   BlocksContent(<<TextBlock("A"), ImageBlock, TextBlock("B")>>)}

OpenAIMessage(role, content) == [role |-> role, content |-> content]
Message(role, content) == [role |-> role, content |-> content]

\* The inner loop over the content blocks: content += t for each block with a text.
RECURSIVE BlocksText(_)
BlocksText(blocks) ==
  IF blocks = <<>> THEN ""
  ELSE (IF Head(blocks).hasText THEN Head(blocks).text ELSE "") \o BlocksText(Tail(blocks))

\* The type switch on msg.Content.
ContentText(content) ==
  IF content.kind = "string" THEN content.text
  ELSE IF content.kind = "blocks" THEN BlocksText(content.blocks)
  ELSE ""

\* max_tokens of the OpenAI request: a pointer, nil when the field is absent.
NoMaxTokens == [set |-> FALSE, value |-> 0]
SomeMaxTokens(n) == [set |-> TRUE, value |-> n]

\* A variant of the loop that copies the role of every message that is not a system message.
RECURSIVE ConvertLoop_KeepRoles(_, _, _)
ConvertLoop_KeepRoles(msgs, messages, systemPrompt) ==
  IF msgs = <<>> THEN [messages |-> messages, system |-> systemPrompt]
  ELSE LET msg == Head(msgs)
           content == ContentText(msg.content)
       IN IF msg.role = "system"
          THEN ConvertLoop_KeepRoles(Tail(msgs), messages, content)
          ELSE ConvertLoop_KeepRoles(Tail(msgs), Append(messages, Message(msg.role, content)),
                                     systemPrompt)

\* The loop over req.Messages.
RECURSIVE ConvertLoop(_, _, _)
ConvertLoop(msgs, messages, systemPrompt) ==
  IF msgs = <<>> THEN [messages |-> messages, system |-> systemPrompt]
  ELSE LET msg == Head(msgs)
           content == ContentText(msg.content)
           role == IF msg.role = "assistant" THEN "assistant" ELSE "user"
       IN IF msg.role = "system"
          THEN ConvertLoop(Tail(msgs), messages, content)
          ELSE ConvertLoop(Tail(msgs), Append(messages, Message(role, content)), systemPrompt)

convertOpenAIToAnthropic_KeepRoles(req, upstreamModel) ==
  LET out == ConvertLoop_KeepRoles(req.messages, <<>>, "")
  IN [model |-> upstreamModel,
      max_tokens |-> IF req.max_tokens.set THEN req.max_tokens.value ELSE 4096,
      messages |-> out.messages,
      system |-> out.system]

convertOpenAIToAnthropic(req, upstreamModel) ==
  LET out == ConvertLoop(req.messages, <<>>, "")
  IN [model |-> upstreamModel,
      max_tokens |-> IF req.max_tokens.set THEN req.max_tokens.value ELSE 4096,
      messages |-> out.messages,
      system |-> out.system]

(***************************************************************************)
(* The body of a request as a JSON object: each field holds a value or is  *)
(* absent.  The handler binds the body to a struct (fields the struct does *)
(* not declare are dropped, an absent field gets the zero value), the      *)
(* attempt copies the struct with the upstream model and marshals the copy *)
(* (omitempty leaves out nil and empty fields).                            *)
(***************************************************************************)
Absent == "absent"

\* A body of POST /v1/messages.  thinking is a field AnthropicMessageRequest does not
\* declare; "tools+" is a tools array whose elements hold a key Tool does not declare.
AnthropicBody(maxTokens, temperature, system, tools, metadata, thinking) ==
  [model |-> "m1", messages |-> "messages", max_tokens |-> maxTokens,
   temperature |-> temperature, system |-> system, tools |-> tools, metadata |-> metadata,
   thinking |-> thinking]

AnthropicBodies ==
  {AnthropicBody(maxTokens, temperature, system, tools, metadata, thinking) :
     maxTokens \in {Absent, "100"}, temperature \in {Absent, "0.5"},
     system \in {Absent, "S"}, tools \in {Absent, "tools", "tools+"},
     metadata \in {Absent, "meta"}, thinking \in {Absent, "enabled"}}

\* c.ShouldBindJSON(&req) into model.AnthropicMessageRequest.
BindAnthropic(b) ==
  [Model |-> b.model, Messages |-> b.messages,
   MaxTokens |-> IF b.max_tokens = Absent THEN "0" ELSE b.max_tokens,
   Temperature |-> b.temperature,
   System |-> IF b.system = Absent THEN "" ELSE b.system,
   Tools |-> IF b.tools = "tools+" THEN "tools" ELSE b.tools,
   Metadata |-> b.metadata]

\* proxyToChannel: proxyReq, the copy of the request with the upstream model.
AnthropicProxyReq(req, upstreamModel) == [req EXCEPT !.Model = upstreamModel]

\* json.Marshal of model.AnthropicMessageRequest: max_tokens has no omitempty.
MarshalAnthropic(r) ==
  [model |-> r.Model, messages |-> r.Messages, max_tokens |-> r.MaxTokens,
   temperature |-> r.Temperature,
   system |-> IF r.System = "" THEN Absent ELSE r.System,
   tools |-> r.Tools, metadata |-> r.Metadata, thinking |-> Absent]

\* A body of POST /v1/chat/completions.  user is a field OpenAIChatRequest does not declare.
OpenAIBody(maxTokens, temperature, stop, functions, tools, user) ==
  [model |-> "m1", messages |-> "messages", max_tokens |-> maxTokens,
   temperature |-> temperature, stop |-> stop, functions |-> functions, tools |-> tools,
   user |-> user]

OpenAIBodies ==
  {OpenAIBody(maxTokens, temperature, stop, functions, tools, user) :
     maxTokens \in {Absent, "100"}, temperature \in {Absent, "0.5"},
     stop \in {Absent, "END"}, functions \in {Absent, "functions"},
     tools \in {Absent, "tools"}, user \in {Absent, "u-1"}}

\* c.ShouldBindJSON(&req) into model.OpenAIChatRequest.
BindOpenAI(b) ==
  [Model |-> b.model, Messages |-> b.messages, MaxTokens |-> b.max_tokens,
   Temperature |-> b.temperature, Stop |-> b.stop, Functions |-> b.functions,
   Tools |-> b.tools]

\* proxyChatToChannel, the branch of a provider other than anthropic: proxyReq.
OpenAIProxyReq(req, upstreamModel) ==
  [Model |-> upstreamModel, Messages |-> req.Messages,
   MaxTokens |-> IF req.MaxTokens # Absent THEN req.MaxTokens ELSE "4096",
   Temperature |-> req.Temperature, Stop |-> req.Stop, Functions |-> Absent,
   Tools |-> req.Tools]

\* json.Marshal of model.OpenAIChatRequest.
MarshalOpenAI(r) ==
  [model |-> r.Model, messages |-> r.Messages, max_tokens |-> r.MaxTokens,
   temperature |-> r.Temperature, stop |-> r.Stop, functions |-> r.Functions,
   tools |-> r.Tools, user |-> Absent]

NoBody == [model |-> ""]

(***************************************************************************)
(* State.                                                                  *)
(***************************************************************************)
VARIABLES
  chatRequest,       \* the body of a chat completions request: messages, max_tokens
  anthropicRequest,  \* the request convertOpenAIToAnthropic made of it
  channels,      \* channels table: id -> row
  mappingRows,   \* model_mappings table
  adminOps,      \* number of admin operations so far
  request,       \* the inbound request: entry point, stream flag, model, caller key
  scope,         \* what this run varies: "tables", "admin", "caller" or "bodies"
  upstreamBody,  \* the SSE body of the upstream whose stream was opened
  pc,            \* position of the request: idle, loop, fallback, streaming, returned, done
  lookup,        \* the lookup of the request: whether the query ran, and the tables it read
  mappings,      \* the result of FindByDisplayModel
  idx,           \* index of the next mapping of the loop
  lastErr,       \* lastErr of the streaming orchestrators
  cur,           \* the attempt that is streaming: target and upstream model
  body,          \* unread rest of the upstream body
  dropped,       \* the upstream connection failed before the end of its body
  inputTokens,   \* inputTokens of proxyStreamToChannel
  outputTokens,  \* outputTokens of proxyStreamToChannel
  hasData,       \* hasData of proxyChatStreamToChannel
  attempts,      \* the upstream calls made, in order
  createCalls,   \* the records handed to logRepo.Create, in order
  request_logs,  \* request_logs table
  w,             \* the caller's response
  result,        \* value returned by the service to the handler
  callerGone,    \* the inbound connection: whether the caller has disconnected, and when
  credentials,   \* the credentials the request presents: x-api-key, Authorization, cookie
  handlerAPIKey, \* apiKey of the ProxyHandler: the configured shared secret, "" for none
  callerBody,    \* the JSON body of the caller's request
  bodyBytes      \* the JSON body of the upstream request made of it

vars == <<chatRequest, anthropicRequest, channels, mappingRows, adminOps, request, scope, upstreamBody, pc, lookup, mappings, idx, lastErr,
          cur, body, dropped, inputTokens, outputTokens, hasData, attempts, createCalls,
          request_logs, w, result, callerGone, credentials, handlerAPIKey,
          callerBody, bodyBytes>>

storeVars == <<channels, mappingRows, adminOps, scope>>
bodyVars == <<callerBody, bodyBytes>>
convVars == <<chatRequest, anthropicRequest, bodyVars>>
authVars == <<credentials, handlerAPIKey>>

Pool == IF scope = "bodies" THEN StreamBodies ELSE CommonBodies
streamVars == <<cur, body, dropped, inputTokens, outputTokens, hasData>>
requestVars == <<request, upstreamBody, pc, lookup, mappings, idx, lastErr, streamVars, attempts,
                 createCalls, request_logs, w, result>>

NoTarget == [channel_id |-> 0, base_url |-> "", api_key |-> "", provider |-> "", timeout |-> 0]
NoCur == [target |-> NoTarget, upstream_model |-> "", n |-> 0]

\* apiKey is the key the handler hands to the service: the result of validateAPIKey.
Requests == [entry : Entries, stream : BOOLEAN, model : {"m1"}, apiKey : {""}]

\* Tables as the admin API can have left them: every channel present and active,
\* every mapping enabled (the column defaults); admin operations change them.
\* A run varies one thing.  Scope "caller": the caller may disconnect during the
\* request.  Scope "tables": every table, the admin API idle.  Scope
\* "admin": tables of the requested model's rows, changed by the admin API during the
\* request.  Scope "bodies": every stream body, on one channel of either flavor, the
\* admin API idle.  In these scopes the request is followed from the entry of its
\* handler and presents the configured key.  Scope "auth": every combination of
\* credentials, with and without a configured key.  Scope "router": the request is
\* followed from the route table of the engine.
ChannelTables ==
  {[ch \in Channels |-> Channel(TRUE, prio[ch], ProviderOf(ch))] : prio \in [Channels -> Priorities]}

\* One row per channel for the requested model, a second row of channel 1 for it under
\* another upstream model, and a row for another display model.
PossibleRows ==
  {MappingRow(ch, UpstreamModelOf(ch), "m1", TRUE) : ch \in Channels}
    \cup {MappingRow(1, AltUpstreamModel, "m1", TRUE), MappingRow(1, UpstreamModelOf(1), "m2", TRUE)}

MappingTables == {rows \in SUBSET PossibleRows : Cardinality(rows) <= MaxMappings}

BaseChannels == [ch \in Channels |-> Channel(TRUE, 1, ProviderOf(ch))]
BaseRows == {MappingRow(ch, UpstreamModelOf(ch), "m1", TRUE) : ch \in Channels}
BaseTables == {{m} : m \in BaseRows}
AdminTables == (SUBSET BaseRows) \ {{}}
AuthTables == {{}, {MappingRow(1, UpstreamModelOf(1), "m1", TRUE)}}

\* The caller's connection: gone is set when the caller disconnects, with the number
\* of upstream calls finished and the position of the request at that moment.
StillConnected == [gone |-> FALSE, attempts |-> 0, at |-> ""]

\* No request is under way.
RequestIdle ==
  /\ upstreamBody = <<>>
  /\ pc = "idle"
  /\ lookup = [ok |-> FALSE, rows |-> {}, channels |-> channels]
  /\ mappings = <<>>
  /\ idx = 1
  /\ lastErr = NoResult
  /\ cur = NoCur
  /\ body = <<>>
  /\ dropped = FALSE
  /\ inputTokens = 0
  /\ outputTokens = 0
  /\ hasData = FALSE
  /\ attempts = <<>>
  /\ createCalls = <<>>
  /\ request_logs = <<>>
  /\ w = NewWriter
  /\ result = NoResult
  /\ callerGone = StillConnected

\* The request of the specification's example: a system message and a user message.
ExampleChatRequest ==
  [messages |-> <<OpenAIMessage("system", StringContent("X")),
                  OpenAIMessage("user", StringContent("Y"))>>,
   max_tokens |-> NoMaxTokens]

NoRequest == [model |-> "", max_tokens |-> 0, messages |-> <<>>, system |-> ""]

Init ==
  /\ channels \in ChannelTables
  /\ mappingRows \in MappingTables
  /\ request \in Requests
  /\ \/ /\ scope = "tables"
        /\ adminOps = MaxAdminOps
     \/ /\ scope = "admin"
        /\ mappingRows \in AdminTables
        /\ adminOps = 0
     \/ /\ scope = "caller"
        /\ channels = BaseChannels
        /\ mappingRows \in AdminTables
        /\ adminOps = MaxAdminOps
     \/ /\ scope = "bodies"
        /\ request.stream
        /\ channels = BaseChannels
        /\ mappingRows \in BaseTables
        /\ adminOps = MaxAdminOps
     \/ /\ scope = "router"
        /\ channels = BaseChannels
        /\ mappingRows \in BaseTables
        /\ adminOps = MaxAdminOps
     \/ /\ scope = "auth"
        /\ channels = BaseChannels
        /\ mappingRows \in AuthTables
        /\ adminOps = MaxAdminOps
  /\ credentials \in CredentialSets
  /\ handlerAPIKey \in ConfiguredKeys
  /\ scope # "auth" => (credentials = OwnCredentials /\ handlerAPIKey = CallerKey)
  /\ RequestIdle
  /\ chatRequest = ExampleChatRequest
  /\ anthropicRequest = NoRequest
  /\ callerBody = NoBody
  /\ bodyBytes = NoBody

(***************************************************************************)
(* Handler entry and mapping lookup.                                       *)
(* ProxyHandler.ProxyMessage / ProxyChatCompletions up to the service      *)
(* call, then the first statement of the service method.  On a streaming   *)
(* request the handler sets the event-stream headers before the call.      *)
(***************************************************************************)
\* The engine finds the handler of the request's path.
Routed == scope = "router" => request.entry \in RegisteredRoutes

\* No route matches the path: the engine answers 404 and no handler runs.
PlainBody(code, text) == Atom("text", Payload("plain", text, code, NoTok, FALSE, "", "", ""))

NoRoute ==
  /\ pc = "idle"
  /\ ~Routed
  /\ w' = Flush(Write([w EXCEPT !.status = 404, !.headers.content_type = "text/plain"],
                      <<PlainBody(404, "404 page not found")>>))
  /\ pc' = "done"
  /\ UNCHANGED <<storeVars, convVars, authVars, callerGone, lookup, request, upstreamBody, mappings, idx,
                 lastErr, streamVars, attempts, createCalls, request_logs, result>>

\* The handler's first statements: validateAPIKey fails, 401 and return.
AuthEnvelope == IF request.entry = "messages" THEN "authentication_error" ELSE "openai_invalid_key"

Reject ==
  /\ pc = "idle"
  /\ Routed
  /\ ~validateAPIKey(credentials, handlerAPIKey).valid
  /\ w' = Flush(JSON(w, 401, AuthEnvelope))
  /\ pc' = "done"
  /\ UNCHANGED <<storeVars, convVars, authVars, callerGone, lookup, request, upstreamBody, mappings, idx,
                 lastErr, streamVars, attempts, createCalls, request_logs, result>>

Begin ==
  /\ pc = "idle"
  /\ Routed
  /\ validateAPIKey(credentials, handlerAPIKey).valid
  /\ request' = [request EXCEPT !.apiKey = validateAPIKey(credentials, handlerAPIKey).apiKey]
  /\ \E dbOK \in BOOLEAN, found \in FindByDisplayModel(mappingRows, channels, request.model) :
       LET useFallback == ~dbOK \/ Len(found) = 0
       IN /\ mappings' = IF useFallback THEN <<>> ELSE found
          /\ lookup' = [ok |-> dbOK, rows |-> mappingRows, channels |-> channels]
          /\ pc' = IF useFallback THEN "fallback" ELSE "loop"
  /\ w' = IF request.stream THEN SetStreamHeaders(w) ELSE w
  /\ UNCHANGED <<storeVars, convVars, authVars, callerGone, upstreamBody, idx, lastErr, streamVars, attempts,
                 createCalls, request_logs, result>>

(***************************************************************************)
(* The loop over the mappings.                                             *)
(***************************************************************************)
\* GetByID succeeds and the checks of the loop head pass.
Usable(m) ==
  /\ m.is_enabled
  /\ channels[m.channel_id].exists
  /\ channels[m.channel_id].is_active

AttemptRecord(n, target, upstreamModel, mapped, resp) ==
  [n |-> n, channel_id |-> target.channel_id, mapped |-> mapped,
   priority |-> IF mapped THEN channels[target.channel_id].priority ELSE 0,
   is_enabled |-> IF mapped THEN mappings[idx].is_enabled ELSE FALSE,
   is_active |-> IF mapped THEN channels[target.channel_id].is_active ELSE FALSE,
   outbound |-> Outbound(request.entry, target, upstreamModel),
   deadline |-> Deadline(target),
   stream |-> request.stream, resp |-> resp]

\* continue: the mapping is disabled, its channel is missing or inactive.
SkipCandidate ==
  /\ pc = "loop"
  /\ idx <= Len(mappings)
  /\ ~Usable(mappings[idx])
  /\ idx' = idx + 1
  /\ UNCHANGED <<storeVars, convVars, authVars, callerGone, lookup, request, upstreamBody, pc, mappings, lastErr, streamVars, attempts,
                 createCalls, request_logs, w, result>>

\* An end of the loop that makes the call with no channel when no candidate was tried.
LoopExhausted_FallbackWhenUntried ==
  /\ pc = "loop"
  /\ idx > Len(mappings)
  /\ IF attempts = <<>>
     THEN /\ pc' = "fallback"
          /\ result' = result
     ELSE /\ pc' = "returned"
          /\ result' = IF request.stream /\ lastErr # NoResult THEN lastErr ELSE AllChannelsFailed
  /\ UNCHANGED <<storeVars, convVars, authVars, callerGone, lookup, request, upstreamBody, mappings, idx,
                 lastErr, streamVars, attempts, createCalls, request_logs, w>>

\* The statements after the loop.
LoopExhausted ==
  /\ pc = "loop"
  /\ idx > Len(mappings)
  /\ result' = IF request.stream /\ lastErr # NoResult THEN lastErr ELSE AllChannelsFailed
  /\ pc' = "returned"
  /\ UNCHANGED <<storeVars, convVars, authVars, callerGone, lookup, request, upstreamBody, mappings, idx, lastErr, streamVars, attempts,
                 createCalls, request_logs, w>>

NonStreamAttempt(target, upstreamModel, resp, n) ==
  IF request.entry = "messages"
  THEN proxyToChannel(target, request.model, upstreamModel, resp, n)
  ELSE proxyChatToChannel(target, request.model, upstreamModel, resp, n)

\* The iteration reaches the upstream call.
TryCandidateReached ==
  /\ pc = "loop"
  /\ ~request.stream
  /\ idx <= Len(mappings)
  /\ Usable(mappings[idx])

\* An iteration that gives up the request when the record of its attempt could not be
\* stored: an error of logRepo.Create is returned to the caller.
TryCandidateReturn_FailOnCreateError(resp, createOK) ==
  LET m == mappings[idx]
      n == Len(attempts) + 1
      target == Target(m.channel_id, channels, request.apiKey)
      out == NonStreamAttempt(target, m.upstream_model, resp, n)
  IN /\ attempts' = Append(attempts, AttemptRecord(n, target, m.upstream_model, TRUE, resp))
     /\ createCalls' = Append(createCalls, out.log)
     /\ IF ~createOK
        THEN /\ result' = Err("create_log", n)
             /\ pc' = "returned"
             /\ idx' = idx
        ELSE IF out.ret.kind = "ok"
        THEN /\ result' = out.ret
             /\ pc' = "returned"
             /\ idx' = idx
        ELSE /\ result' = result
             /\ pc' = "loop"
             /\ idx' = idx + 1
     /\ UNCHANGED <<storeVars, convVars, authVars, callerGone, lookup, request, upstreamBody, mappings,
                    lastErr, streamVars, w>>

\* What the iteration does apart from the row of the log table.  createOK is the
\* result of logRepo.Create inside the attempt: the log helpers report an error of
\* Create and return nothing, so the loop goes on from the attempt's own result.
TryCandidateReturn(resp, createOK) ==
  LET m == mappings[idx]
      n == Len(attempts) + 1
      target == Target(m.channel_id, channels, request.apiKey)
      out == NonStreamAttempt(target, m.upstream_model, resp, n)
  IN /\ attempts' = Append(attempts, AttemptRecord(n, target, m.upstream_model, TRUE, resp))
     /\ createCalls' = Append(createCalls, out.log)
     /\ IF out.ret.kind = "ok"
        THEN /\ result' = out.ret
             /\ pc' = "returned"
             /\ idx' = idx
        ELSE /\ result' = result
             /\ pc' = "loop"
             /\ idx' = idx + 1
     /\ UNCHANGED <<storeVars, convVars, authVars, callerGone, lookup, request, upstreamBody, mappings,
                    lastErr, streamVars, w>>

\* One iteration of ProxyMessage / ProxyChat that reaches the upstream call.
TryCandidate ==
  /\ TryCandidateReached
  /\ \E resp \in Responses, sinkOK \in BOOLEAN :
       /\ TryCandidateReturn(resp, sinkOK)
       /\ request_logs' = Create(request_logs, createCalls'[Len(createCalls')], sinkOK)

\* No mapping (or the lookup failed): the single call with no channel.
TryFallbackReturn(resp, createOK) ==
  LET n == Len(attempts) + 1
      target == Target(0, channels, request.apiKey)
      out == NonStreamAttempt(target, request.model, resp, n)
  IN /\ attempts' = Append(attempts, AttemptRecord(n, target, request.model, FALSE, resp))
     /\ createCalls' = Append(createCalls, out.log)
     /\ result' = out.ret
     /\ pc' = "returned"
     /\ UNCHANGED <<storeVars, convVars, authVars, callerGone, lookup, request, upstreamBody, mappings,
                    idx, lastErr, streamVars, w>>

TryFallback ==
  /\ pc = "fallback"
  /\ ~request.stream
  /\ \E resp \in Responses, sinkOK \in BOOLEAN :
       /\ TryFallbackReturn(resp, sinkOK)
       /\ request_logs' = Create(request_logs, createCalls'[Len(createCalls')], sinkOK)

(***************************************************************************)
(* Streaming attempts: from the start of proxyStreamToChannel or           *)
(* proxyChatStreamToChannel to the status check.  ret is Ok when the       *)
(* upstream answered 200 and the function goes on to stream its body.      *)
(***************************************************************************)
proxyStreamToChannel(target, modelName, upstreamModel, resp, n) ==
  LET id == target.channel_id
  IN IF resp.dial # "ok"
     THEN [ret |-> Err("http_request", n),
           log |-> <<logError(id, modelName, upstreamModel, FALSE, 0, "http_request")>>]
     ELSE IF resp.status # 200
     THEN IF resp.json
          THEN [ret |-> Err("api_error", n),
                log |-> <<logError(id, modelName, upstreamModel, TRUE, resp.status,
                                   ErrTypeOf(resp))>>]
          ELSE [ret |-> Err("api_error", n),
                log |-> <<logError(id, modelName, upstreamModel, TRUE, resp.status, "unknown")>>]
     ELSE [ret |-> Ok(n), log |-> <<>>]

proxyChatStreamToChannel(target, modelName, upstreamModel, resp, n) ==
  LET id == target.channel_id
  IN IF resp.dial # "ok"
     THEN [ret |-> Err("http_request", n),
           log |-> <<logError(id, modelName, upstreamModel, FALSE, 0, "http_request")>>]
     ELSE IF resp.status # 200
     THEN [ret |-> Err("api_error", n),
           log |-> <<logError(id, modelName, upstreamModel, TRUE, resp.status, "api_error")>>]
     ELSE [ret |-> Ok(n), log |-> <<>>]

StreamAttempt(target, upstreamModel, resp, n) ==
  IF request.entry = "messages"
  THEN proxyStreamToChannel(target, request.model, upstreamModel, resp, n)
  ELSE proxyChatStreamToChannel(target, request.model, upstreamModel, resp, n)

RECURSIVE CreateAll(_, _, _)
CreateAll(rows, logs, sinkOK) ==
  IF logs = <<>> THEN rows ELSE CreateAll(Create(rows, Head(logs), sinkOK), Tail(logs), sinkOK)

\* One iteration of ProxyMessageStream / ProxyChatStream that reaches the upstream call.
OpenCandidateStreamReached ==
  /\ pc = "loop"
  /\ request.stream
  /\ idx <= Len(mappings)
  /\ Usable(mappings[idx])

\* The records the step hands to logRepo.Create: those added to createCalls.
NewCreateCalls == SubSeq(createCalls', Len(createCalls) + 1, Len(createCalls'))

OpenCandidateStreamReturn(resp, createOK) ==
  LET m == mappings[idx]
      n == Len(attempts) + 1
      target == Target(m.channel_id, channels, request.apiKey)
      out == StreamAttempt(target, m.upstream_model, resp, n)
  IN /\ attempts' = Append(attempts, AttemptRecord(n, target, m.upstream_model, TRUE, resp))
     /\ createCalls' = createCalls \o out.log
     /\ IF out.ret.kind = "ok"
        THEN /\ w' = SetStreamHeaders(w)
             /\ cur' = [target |-> target, upstream_model |-> m.upstream_model, n |-> n]
             /\ upstreamBody' \in Pool
             /\ body' = upstreamBody'
             /\ pc' = "streaming"
             /\ UNCHANGED <<idx, lastErr, result>>
        ELSE /\ lastErr' = out.ret
             /\ IF Written(w)
                THEN /\ result' = out.ret
                     /\ pc' = "returned"
                     /\ idx' = idx
                ELSE /\ result' = result
                     /\ pc' = "loop"
                     /\ idx' = idx + 1
             /\ UNCHANGED <<w, cur, body, upstreamBody>>
     /\ UNCHANGED <<storeVars, convVars, authVars, callerGone, lookup, request, mappings, dropped,
                    inputTokens, outputTokens, hasData>>

OpenCandidateStream ==
  /\ OpenCandidateStreamReached
  /\ \E resp \in StreamResponses, sinkOK \in BOOLEAN :
       /\ OpenCandidateStreamReturn(resp, sinkOK)
       /\ request_logs' = CreateAll(request_logs, NewCreateCalls, sinkOK)

OpenFallbackStreamReturn(resp, createOK) ==
  LET n == Len(attempts) + 1
      target == Target(0, channels, request.apiKey)
      out == StreamAttempt(target, request.model, resp, n)
  IN /\ attempts' = Append(attempts, AttemptRecord(n, target, request.model, FALSE, resp))
     /\ createCalls' = createCalls \o out.log
     /\ IF out.ret.kind = "ok"
        THEN /\ w' = SetStreamHeaders(w)
             /\ cur' = [target |-> target, upstream_model |-> request.model, n |-> n]
             /\ upstreamBody' \in Pool
             /\ body' = upstreamBody'
             /\ pc' = "streaming"
             /\ result' = result
        ELSE /\ result' = out.ret
             /\ pc' = "returned"
             /\ UNCHANGED <<w, cur, body, upstreamBody>>
     /\ UNCHANGED <<storeVars, convVars, authVars, callerGone, lookup, request, mappings, idx, lastErr,
                    dropped, inputTokens, outputTokens, hasData>>

OpenFallbackStream ==
  /\ pc = "fallback"
  /\ request.stream
  /\ \E resp \in StreamResponses, sinkOK \in BOOLEAN :
       /\ OpenFallbackStreamReturn(resp, sinkOK)
       /\ request_logs' = CreateAll(request_logs, NewCreateCalls, sinkOK)

(***************************************************************************)
(* The body of the scan loops: what one line does to the response, the     *)
(* counters and the log.                                                   *)
(***************************************************************************)
StepResult(rw, inTok, outTok, data, logs) ==
  [w |-> rw, inputTokens |-> inTok, outputTokens |-> outTok, hasData |-> data, logs |-> logs]

\* The chunk objects of convertAnthropicStreamToOpenAI (omitempty drops empty fields).
OpenAIChunk(role, content, finish) ==
  Payload("chunk", "", NoTok, NoTok, content # "", content, role, finish)

DoneLine == DataLine(EvDone)

\* A loop body that adds the output_tokens of each message_delta to the counter.
AnthropicLine_Accumulate(line, rw, inTok, outTok, data, c) ==
  IF HasPrefix(line, "event")
  THEN StepResult(Write(Write(rw, <<line>>), <<NL>>), inTok, outTok, data, <<>>)
  ELSE IF HasPrefix(line, "data")
  THEN IF TrimmedIsEmpty(line)
       THEN StepResult(rw, inTok, outTok, data, <<>>)
       ELSE LET p == line.payload
                parsed == IsJSONObject(p)
                logs == IF parsed /\ p.type = "message_stop"
                        THEN <<logSuccess(c.target.channel_id, request.model, c.upstream_model,
                                          inTok, outTok)>>
                        ELSE <<>>
                inTok1 == IF parsed /\ p.msgInput # NoTok THEN p.msgInput ELSE inTok
                outTok1 == IF parsed /\ p.type = "message_delta" /\ p.usageOutput # NoTok
                           THEN outTok + p.usageOutput ELSE outTok
            IN StepResult(Flush(Write(Write(rw, <<line>>), <<NL, NL>>)), inTok1, outTok1, data, logs)
  ELSE StepResult(rw, inTok, outTok, data, <<>>)

\* proxyStreamToChannel, the loop body.
AnthropicLine(line, rw, inTok, outTok, data, c) ==
  IF HasPrefix(line, "event")
  THEN StepResult(Write(Write(rw, <<line>>), <<NL>>), inTok, outTok, data, <<>>)
  ELSE IF HasPrefix(line, "data")
  THEN IF TrimmedIsEmpty(line)
       THEN StepResult(rw, inTok, outTok, data, <<>>)
       ELSE LET p == line.payload
                parsed == IsJSONObject(p)
                logs == IF parsed /\ p.type = "message_stop"
                        THEN <<logSuccess(c.target.channel_id, request.model, c.upstream_model,
                                          inTok, outTok)>>
                        ELSE <<>>
                inTok1 == IF parsed /\ p.msgInput # NoTok THEN p.msgInput ELSE inTok
                outTok1 == IF parsed /\ p.type = "message_delta" /\ p.usageOutput # NoTok
                           THEN p.usageOutput ELSE outTok
            IN StepResult(Flush(Write(Write(rw, <<line>>), <<NL, NL>>)), inTok1, outTok1, data, logs)
  ELSE StepResult(rw, inTok, outTok, data, <<>>)

\* convertAnthropicStreamToOpenAI, the loop body.
TranslateLine(line, rw, inTok, outTok, data) ==
  IF HasPrefix(line, "event")
  THEN StepResult(rw, inTok, outTok, data, <<>>)
  ELSE IF HasPrefix(line, "data")
  THEN IF TrimmedIsEmpty(line) \/ ~IsJSONObject(line.payload)
       THEN StepResult(rw, inTok, outTok, data, <<>>)
       ELSE LET p == line.payload
            IN CASE p.type = "content_block_delta" ->
                      IF p.hasText
                      THEN StepResult(Flush(Write(rw, <<DataLine(OpenAIChunk("", p.text, "null")),
                                                       NL, NL>>)),
                                      inTok, outTok, TRUE, <<>>)
                      ELSE StepResult(rw, inTok, outTok, data, <<>>)
                 [] p.type = "message_start" ->
                      StepResult(Flush(Write(rw, <<DataLine(OpenAIChunk("assistant", "", "null")),
                                                   NL, NL>>)),
                                 inTok, outTok, TRUE, <<>>)
                 [] p.type = "message_stop" ->
                      StepResult(Flush(Write(Write(rw, <<DataLine(OpenAIChunk("", "", "stop")),
                                                         NL, NL>>),
                                             <<DoneLine, NL, NL>>)),
                                 inTok, outTok, data, <<>>)
                 [] OTHER -> StepResult(rw, inTok, outTok, data, <<>>)
  ELSE StepResult(rw, inTok, outTok, data, <<>>)

\* proxyChatStreamToChannel, the loop body for a non-anthropic provider.
PassthroughLine(line, rw, inTok, outTok, data) ==
  IF HasPrefix(line, ":")
  THEN StepResult(rw, inTok, outTok, data, <<>>)
  ELSE IF HasPrefix(line, "data")
  THEN StepResult(Flush(Write(Write(rw, <<line>>), <<NL, NL>>)), inTok, outTok, TRUE, <<>>)
  ELSE StepResult(rw, inTok, outTok, data, <<>>)

LineStep(line, rw, inTok, outTok, data, c) ==
  IF request.entry = "messages"
  THEN AnthropicLine(line, rw, inTok, outTok, data, c)
  ELSE IF c.target.provider = "anthropic"
  THEN TranslateLine(line, rw, inTok, outTok, data)
  ELSE PassthroughLine(line, rw, inTok, outTok, data)

\* An end of the loop that logs a success for every stream, whatever it carried.
EndOfStreamLogs_Always(data, c) ==
  <<RequestLog(c.target.channel_id, request.model, c.upstream_model, 0, 0, 0, "success", "")>>

\* After the loop: proxyChatStreamToChannel logs a success when hasData is set.
EndOfStreamLogs(data, c) ==
  IF request.entry = "chat" /\ data
  THEN <<RequestLog(c.target.channel_id, request.model, c.upstream_model, 0, 0, 0, "success", "")>>
  ELSE <<>>

\* scanner.Scan() returned true: one line is handled.
StreamLineReturn(createOK) ==
  LET sc == Scan(body)
      st == LineStep(Text(sc.buffer), w, inputTokens, outputTokens, hasData, cur)
  IN /\ body' = sc.rest
     /\ w' = st.w
     /\ inputTokens' = st.inputTokens
     /\ outputTokens' = st.outputTokens
     /\ hasData' = st.hasData
     /\ createCalls' = createCalls \o st.logs
     /\ UNCHANGED <<storeVars, convVars, authVars, callerGone, lookup, request, upstreamBody, pc,
                    mappings, idx, lastErr, cur, dropped, attempts, result>>

StreamLine ==
  /\ pc = "streaming"
  /\ Scan(body).ok
  /\ \E sinkOK \in BOOLEAN :
       /\ StreamLineReturn(sinkOK)
       /\ request_logs' = CreateAll(request_logs, NewCreateCalls, sinkOK)

\* A stream end that returns the read error when the upstream failed.
StreamEndReturn_ErrorOnDrop(createOK) ==
  /\ createCalls' = createCalls \o EndOfStreamLogs(hasData, cur)
  /\ body' = Scan(body).rest
  /\ result' = IF dropped THEN Err("read_stream", cur.n) ELSE Ok(cur.n)
  /\ pc' = "returned"
  /\ UNCHANGED <<storeVars, convVars, authVars, callerGone, lookup, request, upstreamBody, mappings,
                 idx, lastErr, cur, dropped, inputTokens, outputTokens, hasData, attempts, w>>

\* scanner.Scan() returned false: the loop ends, the attempt and the orchestrator return nil.
StreamEndReturn(createOK) ==
  /\ createCalls' = createCalls \o EndOfStreamLogs(hasData, cur)
  /\ body' = Scan(body).rest
  /\ result' = Ok(cur.n)
  /\ pc' = "returned"
  /\ UNCHANGED <<storeVars, convVars, authVars, callerGone, lookup, request, upstreamBody, mappings,
                 idx, lastErr, cur, dropped, inputTokens, outputTokens, hasData, attempts, w>>

\* A stream end that treats a failed upstream as a failed candidate and goes on with
\* the next mapping.
StreamEnd_NextCandidate ==
  /\ pc = "streaming"
  /\ ~Scan(body).ok
  /\ \E sinkOK \in BOOLEAN :
       LET logs == EndOfStreamLogs(hasData, cur)
       IN /\ createCalls' = createCalls \o logs
          /\ request_logs' = CreateAll(request_logs, logs, sinkOK)
  /\ body' = Scan(body).rest
  /\ IF dropped /\ idx < Len(mappings)
     THEN /\ idx' = idx + 1
          /\ pc' = "loop"
          /\ result' = result
     ELSE /\ idx' = idx
          /\ pc' = "returned"
          /\ result' = Ok(cur.n)
  /\ UNCHANGED <<storeVars, convVars, authVars, callerGone, lookup, request, upstreamBody, mappings, lastErr, cur, dropped,
                 inputTokens, outputTokens, hasData, attempts, w>>

StreamEnd ==
  /\ pc = "streaming"
  /\ ~Scan(body).ok
  /\ \E sinkOK \in BOOLEAN :
       /\ StreamEndReturn(sinkOK)
       /\ request_logs' = CreateAll(request_logs, NewCreateCalls, sinkOK)

\* The upstream connection fails (reset, or the attempt's deadline passes) at a line
\* boundary or inside the next line: the reads that follow return an error.
UpstreamDrop ==
  /\ pc = "streaming"
  /\ ~dropped
  /\ body # <<>>
  /\ \E k \in {0, 1} :
       /\ k < Len(body)
       /\ body' = SubSeq(body, 1, k)
  /\ dropped' = TRUE
  /\ UNCHANGED <<storeVars, convVars, authVars, callerGone, lookup, request, upstreamBody, pc, mappings, idx, lastErr, cur, inputTokens,
                 outputTokens, hasData, attempts, createCalls, request_logs, w, result>>

(***************************************************************************)
(* The handler after the service call, and the end of the HTTP exchange.   *)
(***************************************************************************)
ErrorEnvelope == IF request.entry = "messages" THEN "anthropic_error" ELSE "openai_error"

Respond ==
  /\ pc = "returned"
  /\ w' = Flush(IF result.kind = "err" THEN JSON(w, 502, ErrorEnvelope)
                ELSE IF ~request.stream THEN JSON(w, 200, "response")
                ELSE w)
  /\ pc' = "done"
  /\ UNCHANGED <<storeVars, convVars, authVars, callerGone, lookup, request, upstreamBody, mappings, idx, lastErr, streamVars, attempts,
                 createCalls, request_logs, result>>

(***************************************************************************)
(* The admin API, concurrent with the request while the request still      *)
(* reads the tables.                                                       *)
(***************************************************************************)
AdminEnabled == adminOps < MaxAdminOps /\ pc \in {"idle", "loop"}

\* ChannelRepository.SetActive (Activate / Deactivate).
AdminSetActive ==
  /\ AdminEnabled
  /\ \E ch \in Channels, b \in BOOLEAN :
       /\ channels[ch].exists
       /\ channels[ch].is_active # b
       /\ channels' = [channels EXCEPT ![ch].is_active = b]
  /\ adminOps' = adminOps + 1
  /\ UNCHANGED <<mappingRows, scope, convVars, authVars, callerGone, lookup, request, upstreamBody, pc, mappings, idx, lastErr,
                 streamVars, attempts, createCalls, request_logs, w, result>>

\* ChannelRepository.Delete.
AdminDelete ==
  /\ AdminEnabled
  /\ \E ch \in Channels :
       /\ channels[ch].exists
       /\ channels' = [channels EXCEPT ![ch].exists = FALSE]
  /\ adminOps' = adminOps + 1
  /\ UNCHANGED <<mappingRows, scope, convVars, authVars, callerGone, lookup, request, upstreamBody, pc, mappings, idx, lastErr,
                 streamVars, attempts, createCalls, request_logs, w, result>>

\* MappingRepository.Update with is_enabled.
AdminSetEnabled ==
  /\ AdminEnabled
  /\ \E m \in mappingRows, b \in BOOLEAN :
       /\ m.is_enabled # b
       /\ [m EXCEPT !.is_enabled = b] \notin mappingRows
       /\ mappingRows' = (mappingRows \ {m}) \cup {[m EXCEPT !.is_enabled = b]}
  /\ adminOps' = adminOps + 1
  /\ UNCHANGED <<channels, scope, convVars, authVars, callerGone, lookup, request, upstreamBody, pc, mappings, idx, lastErr,
                 streamVars, attempts, createCalls, request_logs, w, result>>

\* The caller closes the inbound connection while the service handles the request.
\* The service derives the context of every upstream call from context.Background()
\* and never reads the context of the inbound request: nothing else changes.
CallerDisconnect ==
  /\ scope = "caller"
  /\ pc \in {"loop", "fallback", "streaming"}
  /\ ~callerGone.gone
  /\ callerGone' = [gone |-> TRUE, attempts |-> Len(attempts), at |-> pc]
  /\ UNCHANGED <<storeVars, convVars, authVars, requestVars>>

Next ==
  \/ NoRoute
  \/ Reject
  \/ Begin
  \/ SkipCandidate
  \/ LoopExhausted
  \/ TryCandidate
  \/ TryFallback
  \/ OpenCandidateStream
  \/ OpenFallbackStream
  \/ StreamLine
  \/ StreamEnd
  \/ UpstreamDrop
  \/ Respond
  \/ AdminSetActive
  \/ AdminDelete
  \/ AdminSetEnabled
  \/ CallerDisconnect

Spec == Init /\ [][Next]_vars

(***************************************************************************)
(* The conversion of a chat completions request on its own: every request  *)
(* of up to MaxMessages messages is converted once.                        *)
(***************************************************************************)
OpenAIMessages == {OpenAIMessage(role, content) : role \in Roles, content \in Contents}

ChatRequests ==
  [messages : SeqsOver(OpenAIMessages, MaxMessages),
   max_tokens : {NoMaxTokens, SomeMaxTokens(100)}]

ConvInit ==
  /\ chatRequest \in ChatRequests
  /\ anthropicRequest = NoRequest
  /\ callerBody = NoBody
  /\ bodyBytes = NoBody
  /\ channels = BaseChannels
  /\ mappingRows = {}
  /\ adminOps = MaxAdminOps
  /\ scope = "tables"
  /\ request = [entry |-> "chat", stream |-> FALSE, model |-> "m1", apiKey |-> CallerKey]
  /\ credentials = OwnCredentials
  /\ handlerAPIKey = CallerKey
  /\ RequestIdle

\* The call of convertOpenAIToAnthropic in proxyChatToChannel.
Convert ==
  /\ anthropicRequest = NoRequest
  /\ \E ch \in Channels :
       anthropicRequest' = convertOpenAIToAnthropic(chatRequest, UpstreamModelOf(ch))
  /\ UNCHANGED <<chatRequest, bodyVars, storeVars, authVars, requestVars, callerGone>>

ConvNext == Convert

ConvSpec == ConvInit /\ [][ConvNext]_vars

(***************************************************************************)
(* The body of the upstream request on its own: every body of either entry *)
(* point is sent once to a channel of the entry point's flavor.            *)
(***************************************************************************)
BodyInit ==
  /\ request \in {r \in Requests : ~r.stream}
  /\ callerBody \in (IF request.entry = "messages" THEN AnthropicBodies ELSE OpenAIBodies)
  /\ bodyBytes = NoBody
  /\ chatRequest = ExampleChatRequest
  /\ anthropicRequest = NoRequest
  /\ channels = BaseChannels
  /\ mappingRows = BaseRows
  /\ adminOps = MaxAdminOps
  /\ scope = "tables"
  /\ credentials = OwnCredentials
  /\ handlerAPIKey = CallerKey
  /\ RequestIdle

\* The flavor of the channel is the flavor of the entry point.
SameFlavor(entry, provider) == (entry = "messages") <=> (provider = "anthropic")

\* The handler binds the body, the attempt on a channel of the same flavor marshals
\* its copy of the request.
MarshalProxyReq ==
  /\ bodyBytes = NoBody
  /\ \E m \in mappingRows :
       /\ SameFlavor(request.entry, channels[m.channel_id].provider)
       /\ bodyBytes' =
            IF request.entry = "messages"
            THEN MarshalAnthropic(AnthropicProxyReq(BindAnthropic(callerBody), m.upstream_model))
            ELSE MarshalOpenAI(OpenAIProxyReq(BindOpenAI(callerBody), m.upstream_model))
  /\ UNCHANGED <<callerBody, chatRequest, anthropicRequest, storeVars, authVars, requestVars,
                 callerGone>>

BodyNext == MarshalProxyReq

BodySpec == BodyInit /\ [][BodyNext]_vars

(***************************************************************************)
(* Properties of the failover orchestrator and the usage log.              *)
(***************************************************************************)
Finished == pc = "done"

\* The attempts follow the order of the lookup's result: attempt i was made on a
\* mapping that comes later in the result than the mapping of attempt i - 1.
AttemptsFollowMappings ==
  \E f \in [1..Len(attempts) -> 1..Len(mappings)] :
    /\ \A i, j \in 1..Len(attempts) : i < j => f[i] < f[j]
    /\ \A i \in 1..Len(attempts) :
         /\ attempts[i].channel_id = mappings[f[i]].channel_id
         /\ attempts[i].outbound.model = mappings[f[i]].upstream_model

\* C1: on a streaming request, once a byte of the response has been written to the
\* caller, no further candidate is attempted: the list of attempts stays as it is.
C1_NoCandidateAfterFirstByte ==
  [][(request.stream /\ w.body # <<>>) => attempts' = attempts]_vars

\* C1, its case: bytes were streamed, the upstream failed, and a usable mapping that
\* comes after the streamed one was left untried.
C1_Witness ==
  /\ Finished
  /\ request.stream
  /\ dropped
  /\ w.body # <<>>
  /\ idx < Len(mappings)
  /\ Usable(mappings[idx + 1])
  /\ Len(attempts) = cur.n

\* C2: when the request has returned, the log repository was called exactly once for
\* it, whatever the number of attempts and whatever the outcome.
C2_ExactlyOneLogEmission == Finished => Len(createCalls) = 1

\* C3: a non-streaming request whose candidates fail until one succeeds makes its
\* attempts in the order of the candidates, returns the result of the last attempt,
\* and emits exactly one log record, of status success.
C3_FailoverThenSuccess ==
  (Finished /\ ~request.stream /\ mappings # <<>> /\ result.kind = "ok") =>
    /\ AttemptsFollowMappings
    /\ result.attempt = Len(attempts)
    /\ Len(createCalls) = 1
    /\ createCalls[1].status = "success"

\* C4: a streaming request whose upstream connection fails after the stream was opened
\* tries no further candidate and emits exactly one log record, of status error.
C4_DropAfterCommit ==
  (Finished /\ request.stream /\ dropped) =>
    /\ Len(attempts) = cur.n
    /\ Len(createCalls) = 1
    /\ createCalls[1].status = "error"

NoMappingAtLookup ==
  /\ pc # "idle"
  /\ lookup.ok
  /\ MatchingRows(lookup.rows, lookup.channels, request.model) = {}

C7_LastFailureDetail ==
  (Finished /\ ~request.stream /\ result.kind = "err" /\ attempts # <<>>) =>
    /\ result.attempt = Len(attempts)
    /\ result.tag # AllChannelsFailed.tag

\* The failure causes named for an attempt: the call timed out or the connection
\* failed, the status is outside 200..299, or the body does not parse.
NamedFailure(resp) ==
  \/ resp.dial # "ok"
  \/ ~resp.read
  \/ resp.status \notin 200..299
  \/ ~resp.json

\* C8: a non-streaming attempt fails exactly when one of the named causes occurred; an
\* answer with a 2xx status and a parseable body is a success.
C8_FailureExactlyOnNamedCauses ==
  \A n \in 1..Len(attempts) :
    (~attempts[n].stream /\ n <= Len(createCalls)) =>
      ((createCalls[n].status = "error") <=> NamedFailure(attempts[n].resp))

\* No upstream has answered the request with a success status yet.
NoSuccessStatusYet ==
  \A n \in 1..Len(attempts) :
    ~(attempts[n].resp.dial = "ok" /\ attempts[n].resp.status \in 200..299)

\* C9: on a streaming request, as long as no upstream has answered with a success
\* status, the caller's response is untouched: no header set, no byte written,
\* whatever candidates failed so far.
C9_ResponseUntouchedBeforeStatus ==
  (request.stream /\ pc \in {"loop", "fallback"} /\ NoSuccessStatusYet) => w = NewWriter

\* The data: lines written to the caller, in order.
DataLinesWritten == SelectSeq(w.body, LAMBDA a : a.field = "data")

\* C10: a chat stream translated from an Anthropic upstream that sends message_start
\* (input_tokens 10), a content delta "Hi", message_delta (output_tokens 3) and
\* message_stop, a blank line after each, writes exactly three chunks (the second with
\* the text "Hi") and then data: [DONE], and its log record has input_tokens 10 and
\* output_tokens 3.
C10_TranslatedExample ==
  (/\ Finished
   /\ request.entry = "chat"
   /\ request.stream
   /\ result.kind = "ok"
   /\ cur.target.provider = "anthropic"
   /\ upstreamBody = ExampleBody
   /\ ~dropped) =>
    /\ DataLinesWritten = <<DataLine(OpenAIChunk("assistant", "", "null")),
                            DataLine(OpenAIChunk("", "Hi", "null")),
                            DataLine(OpenAIChunk("", "", "stop")),
                            DoneLine>>
    /\ createCalls # <<>>
    /\ createCalls[Len(createCalls)].status = "success"
    /\ createCalls[Len(createCalls)].input_tokens = 10
    /\ createCalls[Len(createCalls)].output_tokens = 3

(***************************************************************************)
(* Properties of the stream forwarding and of the stream translation.      *)
(***************************************************************************)
\* A streaming request of the given kind has returned, its stream was opened and the
\* upstream sent its body to the end.
StreamServed(entry) ==
  /\ Finished
  /\ request.entry = entry
  /\ request.stream
  /\ result.kind = "ok"
  /\ cur # NoCur
  /\ ~dropped

\* The data: lines of the upstream body, and those with a payload.
UpstreamDataLines == SelectSeq(upstreamBody, LAMBDA a : a.field = "data")

UpstreamPayloadLines == SelectSeq(UpstreamDataLines, LAMBDA a : a.payload.kind # "empty")

\* C11: on the Anthropic entry, the data: lines written to the caller are the data:
\* lines with a payload that the upstream sent up to its end, in the same order, none
\* dropped, duplicated or reordered, for any number of records separated by blank lines.
C11_DataLinesForwardedInOrder ==
  StreamServed("messages") => DataLinesWritten = UpstreamPayloadLines

\* The response after the translation of every line of a sequence, one after the other.
RECURSIVE TranslationOf(_, _)
TranslationOf(lines, rw) ==
  IF lines = <<>> THEN rw
  ELSE TranslationOf(Tail(lines), TranslateLine(Head(lines), rw, 0, 0, FALSE).w)

UpstreamWellFormedLines == SelectSeq(UpstreamDataLines, LAMBDA a : IsJSONObject(a.payload))

UpstreamHasMalformedLine ==
  \E i \in 1..Len(UpstreamDataLines) : UpstreamDataLines[i].payload.kind = "bad"

TranslatedStreamServed == StreamServed("chat") /\ cur.target.provider = "anthropic"

\* C12: in translate mode a data: line that is not valid JSON writes nothing and does
\* not end the stream: the response is the translation of the well-formed events of
\* the upstream, those after the malformed line included.
C12_MalformedLineSkipped ==
  (TranslatedStreamServed /\ UpstreamHasMalformedLine) =>
    w.body = TranslationOf(UpstreamWellFormedLines, [w EXCEPT !.body = <<>>]).body

\* Every data: line of a sequence followed by a blank line.
RECURSIVE EachWithBlankLine(_)
EachWithBlankLine(lines) ==
  IF lines = <<>> THEN <<>> ELSE <<Head(lines), NL, NL>> \o EachWithBlankLine(Tail(lines))

PassthroughStreamServed == StreamServed("chat") /\ cur.target.provider # "anthropic"

\* C13: in passthrough mode every data: line of the upstream is written to the caller
\* unchanged, followed by a blank line and flushed at once, the token counters stay 0
\* and every log record of the stream has input, output and total tokens 0.
C13_PassthroughVerbatim ==
  PassthroughStreamServed =>
    /\ w.body = EachWithBlankLine(UpstreamDataLines)
    /\ w.flushed >= Len(w.body)
    /\ inputTokens = 0
    /\ outputTokens = 0
    /\ \A i \in 1..Len(createCalls) :
         createCalls[i].status = "success" =>
           /\ createCalls[i].input_tokens = 0
           /\ createCalls[i].output_tokens = 0
           /\ createCalls[i].total_tokens = 0

\* The part of the upstream body that the scan loop has read, and its data: lines.
ConsumedBody == SubSeq(upstreamBody, 1, Len(upstreamBody) - Len(body))

ConsumedDataLines == SelectSeq(ConsumedBody, LAMBDA a : a.field = "data")

IsUsageDelta(line) ==
  /\ IsJSONObject(line.payload)
  /\ line.payload.type = "message_delta"
  /\ line.payload.usageOutput # NoTok

\* The output_tokens of the last message_delta with usage in a sequence of lines, 0 if none.
RECURSIVE LastDeltaValue(_)
LastDeltaValue(lines) ==
  IF lines = <<>> THEN 0
  ELSE IF IsUsageDelta(lines[Len(lines)]) THEN lines[Len(lines)].payload.usageOutput
  ELSE LastDeltaValue(SubSeq(lines, 1, Len(lines) - 1))

UpstreamClosedMidFrame ==
  /\ upstreamBody # <<>>
  /\ \/ upstreamBody[Len(upstreamBody)] # NL
     \/ Len(upstreamBody) = 1
     \/ upstreamBody[Len(upstreamBody) - 1] \notin {NL, CR}

\* C15: when the upstream closes in the middle of a frame, the stream of the Anthropic
\* entry ends normally: the attempt returns without an error and every line received,
\* the unterminated last one included, was handled, so its data: lines were forwarded.
C15_MidFrameCloseIsNormalEnd ==
  (/\ Finished
   /\ request.entry = "messages"
   /\ request.stream
   /\ cur # NoCur
   /\ ~dropped
   /\ UpstreamClosedMidFrame) =>
    /\ result.kind = "ok"
    /\ DataLinesWritten = UpstreamPayloadLines

(***************************************************************************)
(* Properties of the request conversion.                                   *)
(***************************************************************************)
Converted == anthropicRequest # NoRequest

SystemMessages == SelectSeq(chatRequest.messages, LAMBDA m : m.role = "system")

OtherMessages == SelectSeq(chatRequest.messages, LAMBDA m : m.role # "system")

\* The texts of a sequence of messages, one after the other.
RECURSIVE TextsInOrder(_)
TextsInOrder(msgs) ==
  IF msgs = <<>> THEN "" ELSE ContentText(Head(msgs).content) \o TextsInOrder(Tail(msgs))

\* C16: the converted request has no message of role system, and its system field is
\* the texts of all the system messages of the input, joined in message order.
C16_SystemMessagesConcatenated ==
  Converted =>
    /\ \A i \in 1..Len(anthropicRequest.messages) : anthropicRequest.messages[i].role # "system"
    /\ anthropicRequest.system = TextsInOrder(SystemMessages)

\* C17: the messages of the converted request are the input messages that are not
\* system messages, in their order, each with role assistant if its role was assistant
\* and role user otherwise; the example [{system, X}, {user, Y}] gives system X and
\* messages [{user, Y}].
C17_RolesCoercedInOrder ==
  Converted =>
    /\ Len(anthropicRequest.messages) = Len(OtherMessages)
    /\ \A i \in 1..Len(OtherMessages) :
         /\ anthropicRequest.messages[i].role =
              (IF OtherMessages[i].role = "assistant" THEN "assistant" ELSE "user")
         /\ anthropicRequest.messages[i].content = ContentText(OtherMessages[i].content)
    /\ chatRequest.messages = ExampleChatRequest.messages =>
         /\ anthropicRequest.system = "X"
         /\ anthropicRequest.messages = <<Message("user", "Y")>>

\* C17, its case: a tool message, a system message and an assistant message were
\* converted into a user message and an assistant message.
C17_Witness ==
  /\ Converted
  /\ Len(chatRequest.messages) = 3
  /\ chatRequest.messages[1].role = "tool"
  /\ chatRequest.messages[2].role = "system"
  /\ chatRequest.messages[3].role = "assistant"
  /\ chatRequest.messages[1].content.kind = "blocks"
  /\ anthropicRequest.messages = <<Message("user", "AB"), Message("assistant", "X")>>

(***************************************************************************)
(* Properties of the upstream calls.                                       *)
(***************************************************************************)
\* C18: every attempt on a configured channel, on either entry, sends the request of
\* the channel's provider: an anthropic channel gets /v1/messages with x-api-key and
\* anthropic-version, any other channel gets /v1/chat/completions with the channel's
\* credential as a bearer token.
C18_OutboundByProvider ==
  \A i \in 1..Len(attempts) :
    attempts[i].mapped =>
      LET a == attempts[i]
          ch == a.channel_id
      IN /\ a.outbound.url = BaseURLOf(ch)
         /\ a.outbound.key = APIKeyOf(ch)
         /\ IF channels[ch].provider = "anthropic"
            THEN /\ a.outbound.path = "/v1/messages"
                 /\ a.outbound.auth = "x-api-key"
                 /\ a.outbound.version = AnthropicVersion
            ELSE /\ a.outbound.path = "/v1/chat/completions"
                 /\ a.outbound.auth = "bearer"

\* The caller disconnected before any stream was opened for it.
DisconnectedBeforeCommit == callerGone.gone /\ callerGone.at \in {"loop", "fallback"}

\* C19: when the caller disconnects before commit, the upstream call that is
\* outstanding is aborted (it ends as a cancelled call) and no further candidate is
\* attempted: at most that one call is finished after the disconnect.
C19_DisconnectAbandonsRequest ==
  DisconnectedBeforeCommit =>
    /\ Len(attempts) <= callerGone.attempts + 1
    /\ \A i \in 1..Len(attempts) :
         i > callerGone.attempts => attempts[i].resp.dial = "canceled"

\* C20: every attempt has its own deadline, the configured timeout of its channel or
\* the default for the call with no channel; a timeout before commit fails that
\* candidate only and the loop goes on to the candidates that remain, a failure of the
\* upstream after commit ends the request with no further attempt.
C20_DeadlinePerCandidate ==
  /\ \A i \in 1..Len(attempts) :
       attempts[i].deadline =
         (IF attempts[i].mapped THEN TimeoutOf(attempts[i].channel_id) ELSE DefaultTimeout)
  /\ (/\ Finished
      /\ mappings # <<>>
      /\ attempts # <<>>
      /\ attempts[Len(attempts)].resp.dial = "timeout") => idx > Len(mappings)
  /\ (Finished /\ request.stream /\ dropped) => Len(attempts) = cur.n

Accepted == validateAPIKey(credentials, handlerAPIKey).valid

\* The JSON bodies written to the caller.
EnvelopesWritten == SelectSeq(w.body, LAMBDA a : a.field = "json")

\* C22: an accepted request of which no candidate succeeded ends with HTTP 502 and the
\* error envelope of its entry point (Anthropic-style on /v1/messages, OpenAI-style on
\* /v1/chat/completions), streaming or not; no failure of a candidate reaches the caller
\* before that: while the request is under way no JSON body is written.
C22_ExhaustedIs502WithEnvelope ==
  /\ (Finished /\ Accepted /\ result.kind # "ok") =>
       /\ w.status = 502
       /\ w.body = <<JSONBody(502, ErrorEnvelope)>>
  /\ ~Finished => EnvelopesWritten = <<>>

\* The key a request presents: the x-api-key header, else the bearer token of the
\* Authorization header, else the auth_token cookie.
PresentedKey ==
  IF credentials.x_api_key # "" THEN credentials.x_api_key
  ELSE IF credentials.authorization.scheme = "Bearer" /\ credentials.authorization.token # ""
  THEN credentials.authorization.token
  ELSE IF credentials.auth_token.present THEN credentials.auth_token.value
  ELSE ""

\* The handler answered 401 and returned.
Rejected == Finished /\ w.status = 401

\* C23: a request that reached a proxy handler is accepted if and only if no shared
\* secret is configured or the key it presents equals the secret; a rejected request
\* triggers no mapping lookup, no upstream attempt and no log record.
C23_AcceptedIffKeyMatches ==
  /\ (pc # "idle" /\ Routed) =>
       (~Rejected <=> (handlerAPIKey = "" \/ PresentedKey = handlerAPIKey))
  /\ Rejected =>
       /\ lookup = [ok |-> FALSE, rows |-> {}, channels |-> channels]
       /\ mappings = <<>>
       /\ attempts = <<>>
       /\ createCalls = <<>>
       /\ request_logs = <<>>
       /\ result = NoResult

\* C23, its case: a request with a wrong x-api-key header was rejected although its
\* cookie holds the secret, while a mapping for its model was in the table.
C23_Witness ==
  /\ Rejected
  /\ credentials.x_api_key = WrongKey
  /\ credentials.auth_token = Cookie(CallerKey)
  /\ handlerAPIKey = CallerKey
  /\ mappingRows # {}

(***************************************************************************)
(* Properties of the body sent upstream.                                   *)
(***************************************************************************)
\* C24: when the flavor of the channel is the flavor of the entry point, the body sent
\* upstream is the caller's body with the model replaced by the upstream model of the
\* mapping: no other field is added, dropped or changed.
C24_OnlyModelReplaced ==
  bodyBytes # NoBody =>
    /\ \E m \in mappingRows : bodyBytes.model = m.upstream_model
    /\ bodyBytes = [callerBody EXCEPT !.model = bodyBytes.model]

(***************************************************************************)
(* Properties of the log records.                                          *)
(***************************************************************************)
\* The attempts that ended in an error, and the error records handed to the log.
FailedAttempts ==
  SelectSeq(attempts, LAMBDA a : \/ a.resp.dial # "ok"
                                 \/ ~a.resp.read
                                 \/ a.resp.status # 200
                                 \/ ~a.resp.json)

ErrorCalls == SelectSeq(createCalls, LAMBDA l : l.status = "error")

\* The failure-stage tags and the error types of upstream error bodies.
ErrorTags ==
  {"marshal_request", "create_request", "http_request", "read_response", "parse_response",
   "api_error", "unknown", "overloaded_error"}

\* C25: every failed attempt has one error record; its error code is
\* "<upstream HTTP status>:<tag>" exactly when an HTTP response was received for the
\* attempt (a failed read of the body, an unparseable body or an error status), and
\* the bare tag when no response arrived.
C25_ErrorCodeCarriesStatus ==
  /\ Len(ErrorCalls) = Len(FailedAttempts)
  /\ \A i \in 1..Len(ErrorCalls) :
       IF FailedAttempts[i].resp.dial = "ok"
       THEN \E tag \in ErrorTags :
              ErrorCalls[i].error_code = StatusText(FailedAttempts[i].resp.status) \o ":" \o tag
       ELSE ErrorCalls[i].error_code \in ErrorTags

\* C26: the record stored for a request describes its terminal outcome: every record
\* handed to Create carries the request's id, the table holds at most one row per
\* request id, and when earlier candidates failed and a later one succeeded, the row
\* under that id has status success and the id of the channel that succeeded.
C26_StoredRowIsTerminalOutcome ==
  /\ \A i \in 1..Len(createCalls) : createCalls[i].request_id = RequestID
  /\ \A i, j \in 1..Len(request_logs) :
       request_logs[i].request_id = request_logs[j].request_id => i = j
  /\ (Finished /\ ~request.stream /\ result.kind = "ok" /\ Len(attempts) >= 2) =>
       \A i \in 1..Len(request_logs) :
         request_logs[i].request_id = RequestID =>
           /\ request_logs[i].status = "success"
           /\ request_logs[i].channel_id = attempts[Len(attempts)].channel_id

(***************************************************************************)
(* Properties of the loop over the candidates.                             *)
(***************************************************************************)
\* The lookup returned mappings and the loop passed every one without an attempt.
AllSkipped == mappings # <<>> /\ idx > Len(mappings) /\ attempts = <<>>

\* C27: when the lookup returns a non-empty list and every entry is skipped, the
\* request ends with an error after no upstream attempt and no log record, and the
\* call with no channel is not made in their place.
C27_AllSkippedEndsInError ==
  [][AllSkipped =>
       /\ AllSkipped'
       /\ pc' # "fallback"
       /\ createCalls' = <<>>
       /\ request_logs' = <<>>
       /\ pc' \in {"returned", "done"} => result'.kind = "err"
       /\ pc' = "done" => w'.status = 502]_vars

\* C27, its case: the channel of the only mapping was active when the lookup read it
\* and inactive when the loop fetched it, and the request ended in an error.
C27_Witness ==
  /\ Finished
  /\ AllSkipped
  /\ Len(mappings) = 1
  /\ lookup.channels[mappings[1].channel_id].is_active
  /\ ~channels[mappings[1].channel_id].is_active
  /\ result.kind = "err"
  /\ w.status = 502

(***************************************************************************)
(* Properties of the log records of a stream.                              *)
(***************************************************************************)
IsStopLine(line) ==
  /\ line.field = "data"
  /\ IsJSONObject(line.payload)
  /\ line.payload.type = "message_stop"

\* The input_tokens of the last event that carries message.usage.input_tokens, 0 if none.
RECURSIVE LastStartValue(_)
LastStartValue(lines) ==
  IF lines = <<>> THEN 0
  ELSE IF IsJSONObject(lines[Len(lines)].payload) /\ lines[Len(lines)].payload.msgInput # NoTok
  THEN lines[Len(lines)].payload.msgInput
  ELSE LastStartValue(SubSeq(lines, 1, Len(lines) - 1))

\* The positions of the message_stop events among the data: lines read so far.
StopPositions == {i \in 1..Len(ConsumedDataLines) : IsStopLine(ConsumedDataLines[i])}

\* The position of the k-th message_stop event.
StopPosition(k) ==
  CHOOSE i \in StopPositions : Cardinality({j \in StopPositions : j <= i}) = k

\* The record logged for a message_stop event that follows the given lines.
StopRecord(before) ==
  logSuccess(cur.target.channel_id, request.model, cur.upstream_model,
             LastStartValue(before), LastDeltaValue(before))

\* The records handed to the log are the error records of the attempts before the
\* stream and one success record for each message_stop event read, in order.
StopRecordsOnly ==
  (request.entry = "messages" /\ request.stream /\ cur # NoCur /\ ~dropped) =>
    /\ Len(createCalls) = (cur.n - 1) + Cardinality(StopPositions)
    /\ \A i \in 1..(cur.n - 1) : createCalls[i].status = "error"
    /\ \A k \in 1..Cardinality(StopPositions) :
         createCalls[cur.n - 1 + k] =
           StopRecord(SubSeq(ConsumedDataLines, 1, StopPosition(k) - 1))

\* A step of a stream hands a record to the log only when it reads a message_stop
\* event, and that record holds the counters as they were before the event.
RecordOnStopOnly ==
  (request.entry = "messages" /\ pc = "streaming") =>
    LET sc == Scan(body)
        lineRead == sc.ok /\ body' = sc.rest /\ dropped' = dropped
    IN NewCreateCalls =
         IF lineRead /\ IsStopLine(Text(sc.buffer))
         THEN <<logSuccess(cur.target.channel_id, request.model, cur.upstream_model,
                           inputTokens, outputTokens)>>
         ELSE <<>>

\* C28: on the Anthropic streaming path a success record is created once for each
\* message_stop event read from the upstream and at no other point after the commit,
\* a stream that ends without a message_stop event creates no record, and the token
\* counts of a record are those of the events before its message_stop.
C28_OneRecordPerMessageStop == []StopRecordsOnly /\ [][RecordOnStopOnly]_vars

\* C28, its case: a message_delta with 3 output tokens and a message_stop were read,
\* and the one record of the stream has 3 output tokens.
C28_Witness ==
  /\ Finished
  /\ request.entry = "messages"
  /\ request.stream
  /\ ~dropped
  /\ ConsumedDataLines = <<DataLine(EvMessageDelta3), DataLine(EvMessageStop)>>
  /\ Len(createCalls) = cur.n
  /\ createCalls[cur.n].status = "success"
  /\ createCalls[cur.n].output_tokens = 3

(***************************************************************************)
(* Properties of the response of a stream.                                 *)
(***************************************************************************)
\* What the stream loops wrote to the caller: everything but JSON and plain bodies.
StreamBytesWritten == SelectSeq(w.body, LAMBDA a : a.field \notin {"json", "text"})

\* C29: a streaming attempt does not return an error after it wrote a byte to the
\* caller: when the service returns an error nothing was written, an attempt that
\* began to stream returns without one, and no response holds both stream bytes and a
\* JSON error body.
C29_NoErrorAfterFirstByte ==
  request.stream =>
    /\ (pc = "returned" /\ result.kind = "err") => (~Written(w) /\ cur = NoCur)
    /\ (pc \in {"returned", "done"} /\ cur # NoCur) => result.kind = "ok"
    /\ StreamBytesWritten # <<>> => EnvelopesWritten = <<>>

\* C29, its case: the upstream failed after stream bytes were written, and the request
\* ended without an error and without a JSON body.
C29_Witness ==
  /\ Finished
  /\ request.stream
  /\ dropped
  /\ StreamBytesWritten # <<>>
  /\ result.kind = "ok"
  /\ w.status = 200
  /\ EnvelopesWritten = <<>>

\* The success records handed to the log.
SuccessCalls == SelectSeq(createCalls, LAMBDA r : r.status = "success")

\* C30: on the OpenAI streaming path, an attempt whose upstream answered with a success
\* status and that forwarded no frame returns without an error, with no byte written,
\* no log record and no further candidate tried; a success record is created if and
\* only if at least one frame was forwarded.
C30_SuccessLogIffFrameForwarded ==
  (Finished /\ request.entry = "chat" /\ request.stream /\ cur # NoCur) =>
    /\ DataLinesWritten = <<>> =>
         /\ result.kind = "ok"
         /\ w.body = <<>>
         /\ Len(createCalls) = cur.n - 1
         /\ Len(attempts) = cur.n
    /\ Len(SuccessCalls) <= 1
    /\ Len(SuccessCalls) = 1 <=> DataLinesWritten # <<>>

====
